---- MODULE Spec2Model ----
(***************************************************************************)
(* Hover / scaling engine of the queue-based VisxLineChart component.      *)
(*                                                                         *)
(* Units.  Data values (y) are integers in thousandths (0.34 is 340), the  *)
(* nice intervals likewise (0.001 is 1).  Timestamps are integer           *)
(* milliseconds relative to a positive epoch base.  Pointer pixels and     *)
(* container widths are integer pixels.  A scale maps to an exact rational *)
(* pixel: the model carries its numerator over the denominator of the      *)
(* scale that produced it (hoverState.xDen, hoverState.yDen).              *)
(***************************************************************************)
EXTENDS Integers, Sequences, FiniteSets, TLC

\* ---------------------------------------------------------------- props
\* Default props of the component.
Height == 270
MarginLeft == 60
MarginTop == 35
MarginBottom == 38
MarginRight == 27
DefaultNumTicks == 4
MinNumTicks == 4
DefaultWidth == 800
MinWidth == 400

\* Constants of the hover engine.
PruneThreshold == 5
Quantiles == 4
TooltipWidth == 150
TooltipHeight == 24
Gap == 2

\* Nice intervals in ascending order, in thousandths.
NiceIntervals ==
  << 1, 2, 5, 10, 20, 50, 100, 200, 500, 1000, 2000, 5000, 10000,
     20000, 50000, 100000, 200000, 500000, 1000000 >>

\* ---------------------------------------------------------------- bounds
MaxSeries == 3     \* series per chart
BurstLen == 20     \* pointer moves in one burst
MaxMoves == 2      \* pointer moves between two leaves in the full controller
PushLen == 12      \* pointer moves pushed while a drain is held

Times == {0, 2}                 \* timestamps a point may carry
YVals == {-4, 4, 340}           \* values a point may carry (thousandths)
PointerXs == {30, 300, 500, 773, 790}   \* pointer pixel X
PushXs == {300, 500}            \* pointer pixel X of the pushes on a held drain
MeasuredWidths == {300, 800}                     \* widths the DOM reports

\* ---------------------------------------------------------------- helpers
Abs(a) == IF a < 0 THEN -a ELSE a
Min2(a, b) == IF a <= b THEN a ELSE b
Max2(a, b) == IF a >= b THEN a ELSE b
\* Math.floor(a / b) and Math.ceil(a / b) for b > 0
Floor(a, b) == a \div b
Ceil(a, b) == -((-a) \div b)

SetMin(S) == CHOOSE m \in S : \A e \in S : m <= e
SetMax(S) == CHOOSE m \in S : \A e \in S : m >= e

NoScale == [null |-> TRUE]
NoHover == [null |-> TRUE]
NoDomain == << >>

\* series.flatMap(s => s.data)
RECURSIVE FlatMapData(_)
FlatMapData(ser) ==
  IF ser = << >> THEN << >> ELSE Head(ser) \o FlatMapData(Tail(ser))

\* Number.prototype.toFixed(2): sign and hundredths, half away from zero.
ToFixed2(y) == [neg |-> y < 0, cents |-> (Abs(y) + 5) \div 10]
ZeroString == [neg |-> FALSE, cents |-> 0]

\* ---------------------------------------------------------------- state
VARIABLES
  series,          \* prop series: sequence of series, each a sequence of points
  yDomain,         \* prop yDomain, NoDomain when absent
  numTicks,        \* prop numTicks
  containerWidth,  \* useState containerWidth
  scales,          \* useMemo scales of the current render, NoScale for null
  hoverState,      \* useState hoverState, NoHover for null
  queue,           \* calculationQueueRef.current
  isProcessing,    \* isProcessingRef.current
  timers,          \* pending setTimeout(processNext, 0) continuations
  lastOp,          \* history: the last event handled
  lastX,           \* history: pixel X of the last pointer move
  lastTick,        \* history: newTooltips of the last resolver run
  submitted,       \* history: pointer moves since the last leave
  resolved,        \* history: ids of the items dequeued since the last leave
  sinceLeave,      \* history: "none", or how the chart was left since the last move
  lastWidth,       \* history: the width the last updateWidth measured
  prevHover,       \* history: the hover state the last pointer move found
  leftOnce         \* history: the pointer has left the chart since mount

vars == << series, yDomain, numTicks, containerWidth, scales, hoverState, queue,
           isProcessing, timers, lastOp, lastX, lastTick, submitted, resolved, sinceLeave, lastWidth,
           prevHover, leftOnce >>

\* ---------------------------------------------------------------- Numbers
\* Values and intervals are decimals written in thousandths; the code holds
\* each as the IEEE-754 double nearest to the decimal and rounds every quotient
\* and product to the nearest double. The double nearest to A / 1000 has the
\* 53-bit mantissa round(A * 2^p / 1000); only A * 2^p modulo 1000 is needed to
\* tell how the roundings fall, and that is computed here.
RECURSIVE Pow2(_)
Pow2(n) ==
  IF n <= 0 THEN 1
  ELSE LET h == Pow2(n \div 2) IN IF n % 2 = 0 THEN h * h ELSE 2 * h * h

RECURSIVE Pow2Mod(_, _)
Pow2Mod(n, m) ==
  IF n <= 0 THEN 1 % m
  ELSE LET h == Pow2Mod(n \div 2, m) IN
       IF n % 2 = 0 THEN (h * h) % m ELSE (2 * h * h) % m

\* floor(log2(A / 1000)) for A >= 1: the binary exponent of the decimal
RECURSIVE BinadeUp(_, _)
BinadeUp(A, e) == IF Pow2(e + 1) * 1000 <= A THEN BinadeUp(A, e + 1) ELSE e
RECURSIVE BinadeDown(_, _)
BinadeDown(A, e) == IF A * Pow2(-e) < 1000 THEN BinadeDown(A, e - 1) ELSE e
BinadeExp(A) == IF A >= 1000 THEN BinadeUp(A, 0) ELSE BinadeDown(A, 0)

\* floor(log2(n)) for an integer n >= 1
RECURSIVE IntExp(_, _)
IntExp(n, k) == IF Pow2(k + 1) <= n THEN IntExp(n, k + 1) ELSE k

\* p with mantissa = round(A * 2^p / 1000) in [2^52, 2^53)
MantShift(A) == 52 - BinadeExp(A)
\* (A * 2^p) mod 1000, whether the mantissa is rounded up, and 1000 times the
\* rounding error of the double in units of its last place
Residue(A) == ((A % 1000) * Pow2Mod(MantShift(A), 1000)) % 1000
RoundsUp(A) == IF Residue(A) > 500 THEN 1 ELSE 0
ErrOfResidue(res) == IF res > 500 THEN 1000 - res ELSE -res
RoundErr(A) == ErrOfResidue(Residue(A))
\* parity of floor(A * 2^p / 1000)
TruncParity(A) ==
  (((((A % 2000) * Pow2Mod(MantShift(A), 2000)) % 2000) - Residue(A)) \div 1000) % 2

Sign(a) == IF a > 0 THEN 1 ELSE IF a < 0 THEN -1 ELSE 0

\* the sign of L * 2^sh - R
CmpScaled(L, sh, R) ==
  LET a == IF sh >= 0 THEN L * Pow2(sh) ELSE L
      b == IF sh >= 0 THEN R ELSE R * Pow2(-sh)
  IN  IF a > b THEN 1 ELSE IF a < b THEN -1 ELSE 0

\* For A = n * I, n >= 1: where the double quotient (A/1000) / (I/1000) falls:
\* -1 below n, 0 on n, 1 above n
\* cmp is the sign of |N| * 2^sh - I; errI the rounding error of the interval
QuotSide(N, cmp, errI) ==
  IF cmp > 0 \/ (cmp = 0 /\ errI < 0) THEN Sign(N) ELSE 0

\* N is 1000 * 2^s times the error of the quotient's numerator against n
\* times its denominator, k = floor(log2 n), eI the exponent of the interval
QuotRoundOf(N, n, k, eI, I, errI) ==
  IF N = 0 THEN 0
  ELSE IF N > 0 THEN QuotSide(N, CmpScaled(N, 1 - k + eI, I), errI)
  ELSE QuotSide(N, CmpScaled(-N, 1 - (IF n > Pow2(k) THEN k ELSE k + 1) + eI, I), errI)

QuotRoundErr(A, I, n, errA, errI, s) ==
  QuotRoundOf(errA * Pow2(s) - n * errI, n, IntExp(n, 0), BinadeExp(I), I, errI)

QuotRound(A, I) ==
  QuotRoundErr(A, I, A \div I, RoundErr(A), RoundErr(I), MantShift(I) - MantShift(A))

\* Math.floor(x / interval) and Math.ceil(x / interval) on doubles
\* r tells where the double quotient |X| / I falls against n = |X| / I
FloorAround(X, n, r) ==
  IF X > 0 THEN (IF r < 0 THEN n - 1 ELSE n)
  ELSE (IF r > 0 THEN -(n + 1) ELSE -n)

CeilAround(X, n, r) ==
  IF X > 0 THEN (IF r > 0 THEN n + 1 ELSE n)
  ELSE (IF r < 0 THEN -(n - 1) ELSE -n)

FloorQuot(X, I) ==
  IF X % I # 0 \/ X = 0 THEN X \div I
  ELSE FloorAround(X, Abs(X) \div I, QuotRound(Abs(X), I))

CeilQuot(X, I) ==
  IF X % I # 0 \/ X = 0 THEN -((-X) \div I)
  ELSE CeilAround(X, Abs(X) \div I, QuotRound(Abs(X), I))

\* One series flat at 0, and the explicit yDomain props
FlatZeroSeries == << [t |-> SetMin(Times), y |-> 0], [t |-> SetMax(Times), y |-> 0] >>
YDomains ==
  { NoDomain, << 0, 1000 >>, << 120, 340 >>, << 340, 340 >>, << 300, 500 >>, << 350, 380 >> }

\* The values a y extent can end on, and both quotients of each by every
\* candidate interval, computed once
ExtentEnds ==
  YVals \cup { FlatZeroSeries[j].y : j \in 1..Len(FlatZeroSeries) }
        \cup { d[k] : d \in YDomains \ { NoDomain }, k \in 1..2 }
Quotients ==
  [ X \in ExtentEnds, I \in { NiceIntervals[j] : j \in 1..Len(NiceIntervals) }
      |-> [ floor |-> FloorQuot(X, I), ceil |-> CeilQuot(X, I) ] ]
FloorOf(X, I) == Quotients[X, I].floor
CeilOf(X, I) == Quotients[X, I].ceil

\* num / den rounded to the nearest integer, a tie to the one of parity par
RoundHalfEven(num, den, par) ==
  LET f == num \div den
      rem == num - f * den
  IN  IF 2 * rem > den THEN f + 1
      ELSE IF 2 * rem < den THEN f
      ELSE IF (par + f) % 2 = 0 THEN f ELSE f + 1

IsPow2Thousand(A) ==
  IF BinadeExp(A) < 0 THEN A * Pow2(-BinadeExp(A)) = 1000
  ELSE A = 1000 * Pow2(BinadeExp(A))

\* For n >= 1: the sign of (the double product n * interval) minus (the double
\* nearest to the decimal n * I / 1000): 0 when the product is that double
ProductRounding(n, I) ==
  LET A == n * I
      s == MantShift(I) - MantShift(A)
      num == Residue(A) * Pow2(s) + n * RoundErr(I)
      den == 1000 * Pow2(s)
  IN  IF IsPow2Thousand(A) /\ num < 0
      THEN Sign(RoundHalfEven(2 * num, den, 0))
      ELSE Sign(RoundHalfEven(num, den, TruncParity(A)) - RoundsUp(A))

\* The sign of (the double n * interval) minus (the double nearest n * I / 1000)
\* for any integer n: doubles are symmetric about 0
TickRounding(n, I) ==
  IF n = 0 THEN 0
  ELSE IF n > 0 THEN ProductRounding(n, I)
  ELSE -ProductRounding(-n, I)

\* ---------------------------------------------------------------- Scale Builder
\* const effectiveNumTicks = Math.max(numTicks, 4)
EffectiveNumTicks(nt) == Max2(nt, MinNumTicks)

\* countTicks counting the intervals instead of the ticks (no + 1)
CountIntervals(interval, min, max) ==
  LET minTick == FloorOf(min, interval) * interval
      maxTick == CeilOf(max, interval) * interval
  IN  (2 * (maxTick - minTick) + interval) \div (2 * interval)

\* countTicks(interval, min, max)
CountTicks(interval, min, max) ==
  LET minTick == FloorOf(min, interval) * interval
      maxTick == CeilOf(max, interval) * interval
  IN  ((2 * (maxTick - minTick) + interval) \div (2 * interval)) + 1

\* The loop over niceIntervals from the largest down, with break on the first
\* interval that gives at least k ticks; niceIntervals[0] when none does.
RECURSIVE BestIntervalFrom(_, _, _, _)
BestIntervalFrom(i, min, max, k) ==
  IF i < 1 THEN NiceIntervals[1]
  ELSE IF CountTicks(NiceIntervals[i], min, max) >= k THEN NiceIntervals[i]
  ELSE BestIntervalFrom(i - 1, min, max, k)

\* bestInterval after the loop
BestInterval(min, max, k) == BestIntervalFrom(Len(NiceIntervals), min, max, k)

\* The extent taken from the data even when a yDomain is supplied
YExtentIgnoresProp(ser, yDom) ==
  LET all == FlatMapData(ser)
      ys == {all[j].y : j \in 1..Len(all)}
  IN  << SetMin(ys), SetMax(ys) >>

\* yExtent = yDomain || extent(allData, yAccessor), then the adjustment
YExtent(ser, yDom) ==
  IF yDom # NoDomain THEN yDom
  ELSE LET all == FlatMapData(ser)
           ys == {all[j].y : j \in 1..Len(all)}
       IN  << SetMin(ys), SetMax(ys) >>

\* The two scales once bestInterval is known: the time scale over the x extent
\* of the points all, to the pixels [margin.left, right], and the linear scale
\* over [minTick, maxTick]
ScaleWith(ts, ext, best, right) ==
  [ x0 |-> SetMin(ts), x1 |-> SetMax(ts),
    r0 |-> MarginLeft, r1 |-> right,
    y0 |-> FloorOf(ext[1], best) * best,
    y1 |-> CeilOf(ext[2], best) * best,
    interval |-> best ]

\* The scales of the points all over the y extent ext with k ticks requested
ScaleOver(all, ext, k, right) ==
  ScaleWith({all[j].t : j \in 1..Len(all)}, ext, BestInterval(ext[1], ext[2], k), right)

\* The scales with the x range run to the container width, right margin forgotten
ScalesFullWidth(ser, yDom, nt, width) ==
  IF Len(FlatMapData(ser)) = 0 THEN NoScale
  ELSE ScaleOver(FlatMapData(ser), YExtent(ser, yDom), EffectiveNumTicks(nt), width)

\* The useMemo that builds the scales: null without data, else the time scale
\* over the x extent and the linear scale over the adjusted y extent.
Scales(ser, yDom, nt, width) ==
  IF Len(FlatMapData(ser)) = 0 THEN NoScale
  ELSE ScaleOver(FlatMapData(ser), YExtent(ser, yDom), EffectiveNumTicks(nt),
                 width - MarginRight)

\* d3 continuous scale: a domain of zero span maps every input to the middle of
\* the range.  A pixel is num / den.
XDen(sc) == IF sc.x1 = sc.x0 THEN 2 ELSE sc.x1 - sc.x0
XScaleNum(sc, t) ==
  IF sc.x1 = sc.x0 THEN sc.r0 + sc.r1
  ELSE sc.r0 * (sc.x1 - sc.x0) + (t - sc.x0) * (sc.r1 - sc.r0)

\* scales.xScale.invert(targetX): a Date, so the milliseconds are truncated
XInvert(sc, px) == sc.x0 + Floor((px - sc.r0) * (sc.x1 - sc.x0), sc.r1 - sc.r0)

YDen(sc) == IF sc.y1 = sc.y0 THEN 2 ELSE sc.y1 - sc.y0
YScaleNum(sc, v) ==
  IF sc.y1 = sc.y0 THEN (Height - MarginBottom) + MarginTop
  ELSE (Height - MarginBottom) * (sc.y1 - sc.y0)
         - (v - sc.y0) * ((Height - MarginBottom) - MarginTop)

\* ---------------------------------------------------------------- Resolver
\* The inner forEach with <= for <: the last point at the least distance
RECURSIVE ClosestFromLast(_, _, _, _, _)
ClosestFromLast(data, hoveredTime, j, closest, minDistance) ==
  IF j > Len(data) THEN closest
  ELSE LET distance == Abs(data[j].t - hoveredTime) IN
       IF minDistance = -1 \/ distance <= minDistance
       THEN ClosestFromLast(data, hoveredTime, j + 1, j, distance)
       ELSE ClosestFromLast(data, hoveredTime, j + 1, closest, minDistance)

\* The inner forEach: the first point at the least distance (strict <).
RECURSIVE ClosestFrom(_, _, _, _, _)
ClosestFrom(data, hoveredTime, j, closest, minDistance) ==
  IF j > Len(data) THEN closest
  ELSE LET distance == Abs(data[j].t - hoveredTime) IN
       IF minDistance = -1 \/ distance < minDistance
       THEN ClosestFrom(data, hoveredTime, j + 1, j, distance)
       ELSE ClosestFrom(data, hoveredTime, j + 1, closest, minDistance)

\* minDistance = Infinity is written -1
ClosestIndex(data, hoveredTime) == ClosestFrom(data, hoveredTime, 1, 1, -1)

\* The loop that stops at the first series without data
RECURSIVE ResolveFromStopsAtEmpty(_, _, _, _)
ResolveFromStopsAtEmpty(ser, sc, hoveredTime, s) ==
  IF s > Len(ser) THEN << >>
  ELSE IF Len(ser[s]) = 0 THEN << >>
  ELSE LET i == ClosestIndex(ser[s], hoveredTime)
           p == ser[s][i]
       IN  << [ line |-> s, idx |-> i, datum |-> p,
                x |-> XScaleNum(sc, p.t), y |-> YScaleNum(sc, p.y) ] >>
           \o ResolveFromStopsAtEmpty(ser, sc, hoveredTime, s + 1)

\* series.forEach: one tooltip per series that has data, in series order
RECURSIVE ResolveFrom(_, _, _, _)
ResolveFrom(ser, sc, hoveredTime, s) ==
  IF s > Len(ser) THEN << >>
  ELSE IF Len(ser[s]) = 0 THEN ResolveFrom(ser, sc, hoveredTime, s + 1)
  ELSE LET i == ClosestIndex(ser[s], hoveredTime)
           p == ser[s][i]
       IN  << [ line |-> s, idx |-> i, datum |-> p,
                x |-> XScaleNum(sc, p.t), y |-> YScaleNum(sc, p.y) ] >>
           \o ResolveFrom(ser, sc, hoveredTime, s + 1)

\* The samples placed at the pointer instead of at their data point
NewTooltipsAtPointer(ser, sc, targetX) ==
  LET tts == ResolveFrom(ser, sc, XInvert(sc, targetX), 1) IN
  [ k \in 1..Len(tts) |-> [tts[k] EXCEPT !.x = targetX * XDen(sc)] ]

\* newTooltips of processCalculationQueue(targetX)
NewTooltips(ser, sc, targetX) == ResolveFrom(ser, sc, XInvert(sc, targetX), 1)

\* "Filter out duplicate y=0 tooltips": the forEach with hasSeenZero
IsDisplayZero(tt) == ToFixed2(tt.datum.y) = ZeroString

\* The filter that never sets hasSeenZero
RECURSIVE FilterFromNoFlag(_, _, _)
FilterFromNoFlag(tts, j, hasSeenZero) ==
  IF j > Len(tts) THEN << >>
  ELSE IF IsDisplayZero(tts[j])
       THEN (IF hasSeenZero THEN << >> ELSE << tts[j] >>)
            \o FilterFromNoFlag(tts, j + 1, hasSeenZero)
       ELSE << tts[j] >> \o FilterFromNoFlag(tts, j + 1, hasSeenZero)

RECURSIVE FilterFrom(_, _, _)
FilterFrom(tts, j, hasSeenZero) ==
  IF j > Len(tts) THEN << >>
  ELSE IF IsDisplayZero(tts[j])
       THEN (IF hasSeenZero THEN << >> ELSE << tts[j] >>)
            \o FilterFrom(tts, j + 1, TRUE)
       ELSE << tts[j] >> \o FilterFrom(tts, j + 1, hasSeenZero)

FilteredTooltips(tts) == FilterFrom(tts, 1, FALSE)

\* The hover state patched: the tooltips already displayed are kept in front
ComputeHoverStateMerged(ser, sc, targetX) ==
  LET filtered == FilteredTooltips(NewTooltips(ser, sc, targetX))
      kept == IF hoverState = NoHover THEN << >> ELSE hoverState.tooltips
  IN
  [ xPosition |-> IF Len(filtered) > 0 THEN filtered[1].x ELSE targetX * XDen(sc),
    tooltips |-> kept \o filtered,
    xDen |-> XDen(sc),
    yDen |-> YDen(sc) ]

\* The value handed to setHoverState by processCalculationQueue(targetX)
ComputeHoverState(ser, sc, targetX) ==
  LET filtered == FilteredTooltips(NewTooltips(ser, sc, targetX)) IN
  [ xPosition |-> IF Len(filtered) > 0 THEN filtered[1].x ELSE targetX * XDen(sc),
    tooltips |-> filtered,
    xDen |-> XDen(sc),
    yDen |-> YDen(sc) ]

\* ---------------------------------------------------------------- Layout
\* [...hoverState.tooltips].sort((a, b) => b.y - a.y): stable, y descending
RECURSIVE InsertByY(_, _)
InsertByY(sorted, tt) ==
  IF sorted = << >> THEN << tt >>
  ELSE IF Head(sorted).y >= tt.y THEN << Head(sorted) >> \o InsertByY(Tail(sorted), tt)
  ELSE << tt >> \o sorted

RECURSIVE SortFrom(_, _, _)
SortFrom(tts, j, acc) ==
  IF j > Len(tts) THEN acc ELSE SortFrom(tts, j + 1, InsertByY(acc, tts[j]))

\* The tooltips left in the order of their series
SortedTooltipsUnsorted(tts) == tts

\* sortedTooltips
SortedTooltips(tts) == SortFrom(tts, 1, << >>)

\* The step that leaves the gap out
NewTopNoGap(y, lastBottom, den) ==
  LET originalTop == y - (TooltipHeight \div 2) * den
      newTop == Min2(originalTop, lastBottom - TooltipHeight * den)
  IN  Max2(MarginTop * den, newTop)

\* One step of the map: newTop from originalTop and lastBottom, all in 1/den px
NewTop(y, lastBottom, den) ==
  LET originalTop == y - (TooltipHeight \div 2) * den
      newTop == Min2(originalTop, lastBottom - TooltipHeight * den - Gap * den)
  IN  Max2(MarginTop * den, newTop)

\* The map without newTop = Math.max(margin.top, newTop)
RECURSIVE RepositionFromNoClamp(_, _, _, _, _)
RepositionFromNoClamp(sorted, j, lastBottom, den, xPosition) ==
  IF j > Len(sorted) THEN << >>
  ELSE LET newTop == Min2(sorted[j].y - (TooltipHeight \div 2) * den,
                          lastBottom - TooltipHeight * den - Gap * den) IN
       << [ line |-> sorted[j].line, idx |-> sorted[j].idx, datum |-> sorted[j].datum,
            x |-> sorted[j].x, y |-> sorted[j].y,
            top |-> newTop,
            adjustedY |-> newTop + (TooltipHeight \div 2) * den,
            relativeX |-> sorted[j].x - xPosition ] >>
       \o RepositionFromNoClamp(sorted, j + 1, newTop, den, xPosition)

\* sortedTooltips.map from element j on, lastBottom carried along
RECURSIVE RepositionFrom(_, _, _, _, _)
RepositionFrom(sorted, j, lastBottom, den, xPosition) ==
  IF j > Len(sorted) THEN << >>
  ELSE LET newTop == NewTop(sorted[j].y, lastBottom, den) IN
       << [ line |-> sorted[j].line, idx |-> sorted[j].idx, datum |-> sorted[j].datum,
            x |-> sorted[j].x, y |-> sorted[j].y,
            top |-> newTop,
            adjustedY |-> newTop + (TooltipHeight \div 2) * den,
            relativeX |-> sorted[j].x - xPosition ] >>
       \o RepositionFrom(sorted, j + 1, newTop, den, xPosition)

\* The map started with lastBottom at the bottom of the plot area
RepositionedTooltipsFromPlotBottom(hs) ==
  RepositionFrom(SortedTooltips(hs.tooltips), 1, (Height - MarginBottom) * hs.yDen,
                 hs.yDen, hs.xPosition)

\* repositionedTooltips of the render of hover state hs
RepositionedTooltips(hs) ==
  RepositionFrom(SortedTooltips(hs.tooltips), 1, Height * hs.yDen, hs.yDen, hs.xPosition)

\* anchorRight without the assumed tooltip width
AnchorRightNoWidth(hs, w) ==
  hs.xPosition > (w - MarginRight) * hs.xDen

\* anchorRight of the render of hover state hs at container width w
AnchorRight(hs, w) ==
  LET chartWidth == w - MarginLeft - MarginRight IN
  hs.xPosition + TooltipWidth * hs.xDen > (MarginLeft + chartWidth) * hs.xDen

\* The "Vertical hover line" divs of the render of hover state hs
HoverLines(hs) ==
  << [ left |-> 0, top |-> MarginTop, height |-> Height - MarginTop - MarginBottom ] >>

\* The "Date label" divs of the render of hover state hs: always one, its text
\* the time of the first tooltip, or empty
DateLabels(hs) ==
  << [ left |-> 0,
       text |-> IF Len(hs.tooltips) > 0 THEN << hs.tooltips[1].datum.t >> ELSE << >> ] >>

\* The date label's transform: translateX(-100%) when anchorRight
DateLabelFlipped(hs, w) == AnchorRight(hs, w)

\* The "Tooltip" divs of the render of hover state hs at container width w:
\* left offset from the guide, and translate(-100%, -50%) when anchorRight
TooltipBoxes(hs, w) ==
  LET rts == RepositionedTooltips(hs) IN
  [ k \in 1..Len(rts) |->
      [ line |-> rts[k].line,
        left |-> IF AnchorRight(hs, w) THEN rts[k].relativeX - 8 * hs.xDen
                 ELSE rts[k].relativeX + 8 * hs.xDen,
        top |-> rts[k].adjustedY,
        flipped |-> AnchorRight(hs, w) ] ]

\* The "Hover point" divs of the render of hover state hs: one inside each
\* element of repositionedTooltips.map, next to its tooltip box
HoverPoints(hs) ==
  LET rts == RepositionedTooltips(hs) IN
  [ k \in 1..Len(rts) |->
      [ line |-> rts[k].line,
        left |-> rts[k].relativeX - 5 * hs.xDen,
        top |-> rts[k].y - 5 * hs.yDen ] ]

\* ---------------------------------------------------------------- inputs
\* A series: points over Times, timestamps strictly increasing.
Points == [t : Times, y : YVals]
SeriesUniverse ==
  UNION { { d \in [1..n -> Points] : \A j \in 1..(n - 1) : d[j].t < d[j + 1].t }
          : n \in 0..Cardinality(Times) }
DataSets == UNION { [1..n -> SeriesUniverse] : n \in 0..MaxSeries }
\* Charts of at most one series whose points all carry the largest value, for
\* the full controller
SingleSeriesSets ==
  { d \in DataSets :
      /\ Len(d) <= 1
      /\ \A s \in 1..Len(d) : \A j \in 1..Len(d[s]) : d[s][j].y = SetMax(YVals) }
\* The data sets of the scale builder runs: those, and one series flat at 0
ScaleDataSets == SingleSeriesSets \cup { << FlatZeroSeries >> }
\* The requested tick counts
NumTicksProps == { 2, 4, 6 }

props == << series, yDomain, numTicks >>
history == << lastOp, lastX, lastTick, submitted, resolved, sinceLeave, lastWidth,
              prevHover, leftOnce >>


\* ---------------------------------------------------------------- Coalescer
Last(q) == q[Len(q)]

\* The quantile loop: for (i = step - 1; i < queue.length; i += step)
RECURSIVE QuantileItems(_, _, _)
QuantileItems(q, i, step) ==
  IF i > Len(q) THEN << >> ELSE << q[i] >> \o QuantileItems(q, i + step, step)

\* The pruning block keeping every item
PruneKeepsAll(q) == q

\* The pruning block of handlePointerMove, entered when length > pruneThreshold
Prune(q) ==
  LET step == Len(q) \div Quantiles
      pruned == QuantileItems(q, step, step)
  IN  IF Last(pruned) # Last(q) THEN Append(pruned, Last(q)) ELSE pruned

\* push, then prune when the queue is longer than the threshold
PushAndPrune(q, item) ==
  LET pushed == Append(q, item) IN
  IF Len(pushed) > PruneThreshold THEN Prune(pushed) ELSE pushed

\* processNext without the else branch that resets the flag after the last item
ProcessNextKeepsFlag(c, ser, sc) ==
  IF Len(c.queue) = 0 THEN [c EXCEPT !.isProcessing = FALSE]
  ELSE LET item == Last(c.queue)
           rest == SubSeq(c.queue, 1, Len(c.queue) - 1)
       IN  [ queue |-> rest,
             isProcessing |-> TRUE,
             hoverState |-> IF sc = NoScale THEN c.hoverState
                            ELSE ComputeHoverState(ser, sc, item.x),
             timers |-> IF Len(rest) > 0
                        THEN Append(c.timers, [ser |-> ser, sc |-> sc])
                        ELSE c.timers,
             tick |-> IF sc = NoScale THEN c.tick
                      ELSE [ x |-> item.x, hoveredTime |-> XInvert(sc, item.x),
                             samples |-> NewTooltips(ser, sc, item.x) ],
             resolved |-> c.resolved \cup {item.timestamp} ]

\* processNext, run with the series and scales sc its closure captured, on the
\* controller state c = [queue, isProcessing, hoverState, timers, tick, resolved]
ProcessNext(c, ser, sc) ==
  IF Len(c.queue) = 0 THEN [c EXCEPT !.isProcessing = FALSE]
  ELSE LET item == Last(c.queue)
           rest == SubSeq(c.queue, 1, Len(c.queue) - 1)
           hs == IF sc = NoScale THEN c.hoverState
                 ELSE ComputeHoverState(ser, sc, item.x)
           tk == IF sc = NoScale THEN c.tick
                 ELSE [ x |-> item.x, hoveredTime |-> XInvert(sc, item.x),
                        samples |-> NewTooltips(ser, sc, item.x) ]
       IN  [ queue |-> rest,
             isProcessing |-> Len(rest) > 0,
             hoverState |-> hs,
             timers |-> IF Len(rest) > 0
                        THEN Append(c.timers, [ser |-> ser, sc |-> sc])
                        ELSE c.timers,
             tick |-> tk,
             resolved |-> c.resolved \cup {item.timestamp} ]

\* The handler without its early return on null scales
HandlePointerMoveNoGuard(c, ser, sc, x, id) ==
  LET q == PushAndPrune(c.queue, [x |-> x, timestamp |-> id])
      c1 == [c EXCEPT !.queue = q]
  IN  IF ~c.isProcessing /\ Len(q) > 0
      THEN ProcessNext([c1 EXCEPT !.isProcessing = TRUE], ser, sc)
      ELSE c1

\* handlePointerMove with mouse X x, the item stamped id
HandlePointerMove(c, ser, sc, x, id) ==
  IF sc = NoScale THEN c
  ELSE LET q == PushAndPrune(c.queue, [x |-> x, timestamp |-> id])
           c1 == [c EXCEPT !.queue = q]
       IN  IF ~c.isProcessing /\ Len(q) > 0
           THEN ProcessNext([c1 EXCEPT !.isProcessing = TRUE], ser, sc)
           ELSE c1

\* The controller state read with the draining flag already set
ControllerHeld ==
  [ queue |-> queue, isProcessing |-> TRUE, hoverState |-> hoverState,
    timers |-> timers, tick |-> lastTick, resolved |-> resolved ]

\* The refs and state the handlers read and write in one render
Controller ==
  [ queue |-> queue, isProcessing |-> isProcessing, hoverState |-> hoverState,
    timers |-> timers, tick |-> lastTick, resolved |-> resolved ]

\* ---------------------------------------------------------------- actions
NoTick == [null |-> TRUE]

InitController ==
  /\ containerWidth = DefaultWidth
  /\ scales = Scales(series, yDomain, numTicks, DefaultWidth)
  /\ hoverState = NoHover
  /\ queue = << >>
  /\ isProcessing = FALSE
  /\ timers = << >>
  /\ lastOp = "mount"
  /\ lastX = 0
  /\ lastTick = NoTick
  /\ submitted = 0
  /\ resolved = {}
  /\ sinceLeave = "none"
  /\ lastWidth = DefaultWidth
  /\ prevHover = NoHover
  /\ leftOnce = FALSE

\* onPointerMove with the first processNext scheduled by setTimeout, not called
PointerMoveDeferred(x) ==
  /\ scales # NoScale
  /\ queue' = PushAndPrune(queue, [x |-> x, timestamp |-> submitted + 1])
  /\ isProcessing' = TRUE
  /\ timers' = IF isProcessing THEN timers
               ELSE Append(timers, [ser |-> series, sc |-> scales])
  /\ submitted' = submitted + 1
  /\ lastX' = x
  /\ lastOp' = "move"
  /\ sinceLeave' = "none"
  /\ prevHover' = hoverState
  /\ UNCHANGED << props, containerWidth, scales, hoverState, lastTick, resolved,
                  lastWidth, leftOnce >>

\* onPointerMove of the chart
PointerMove(x) ==
  /\ \E c \in { HandlePointerMove(Controller, series, scales, x, submitted + 1) } :
       /\ queue' = c.queue
       /\ isProcessing' = c.isProcessing
       /\ hoverState' = c.hoverState
       /\ timers' = c.timers
       /\ lastTick' = c.tick
       /\ resolved' = c.resolved
  /\ submitted' = submitted + 1
  /\ lastX' = x
  /\ lastOp' = "move"
  /\ sinceLeave' = "none"
  /\ prevHover' = hoverState
  /\ UNCHANGED << props, containerWidth, scales, lastWidth, leftOnce >>

\* onMouseLeave without setHoverState(null)
MouseLeaveKeepsHover ==
  /\ scales # NoScale
  /\ queue' = << >>
  /\ isProcessing' = FALSE
  /\ lastOp' = "leave"
  /\ submitted' = 0
  /\ resolved' = {}
  /\ sinceLeave' = IF hoverState = NoHover THEN "leftIdle" ELSE "leftHovering"
  /\ lastX' = 0
  /\ lastTick' = NoTick
  /\ prevHover' = NoHover
  /\ leftOnce' = TRUE
  /\ UNCHANGED << props, containerWidth, scales, hoverState, timers, lastWidth >>

\* onMouseLeave of the chart wrapper (wired only when the chart is rendered)
MouseLeave ==
  /\ scales # NoScale
  /\ queue' = << >>
  /\ isProcessing' = FALSE
  /\ hoverState' = NoHover
  /\ lastOp' = "leave"
  /\ submitted' = 0
  /\ resolved' = {}
  /\ sinceLeave' = IF hoverState = NoHover THEN "leftIdle" ELSE "leftHovering"
  /\ lastX' = 0
  /\ lastTick' = NoTick
  /\ prevHover' = NoHover
  /\ leftOnce' = TRUE
  /\ UNCHANGED << props, containerWidth, scales, timers, lastWidth >>

\* updateWidth with the scales memo left as it was
UpdateWidthKeepsScales(w) ==
  /\ Max2(w, MinWidth) # containerWidth
  /\ containerWidth' = Max2(w, MinWidth)
  /\ lastWidth' = w
  /\ lastOp' = "resize"
  /\ UNCHANGED << props, scales, hoverState, queue, isProcessing, timers,
                  lastX, lastTick, submitted, resolved, sinceLeave, prevHover, leftOnce >>

\* updateWidth with the measured width w
UpdateWidth(w) ==
  /\ Max2(w, MinWidth) # containerWidth
  /\ containerWidth' = Max2(w, MinWidth)
  /\ lastWidth' = w
  /\ scales' = Scales(series, yDomain, numTicks, Max2(w, MinWidth))
  /\ lastOp' = "resize"
  /\ UNCHANGED << props, hoverState, queue, isProcessing, timers,
                  lastX, lastTick, submitted, resolved, sinceLeave, prevHover, leftOnce >>

\* a render with a new series prop
ReplaceSeries(ser) ==
  /\ ser # series
  /\ series' = ser
  /\ scales' = Scales(ser, yDomain, numTicks, containerWidth)
  /\ lastOp' = "series"
  /\ UNCHANGED << yDomain, numTicks, containerWidth, hoverState, queue, isProcessing,
                  timers, lastX, lastTick, submitted, resolved, sinceLeave, lastWidth,
                  prevHover, leftOnce >>

\* a render with a new yDomain prop
ReplaceYDomain(d) ==
  /\ d # yDomain
  /\ yDomain' = d
  /\ scales' = Scales(series, d, numTicks, containerWidth)
  /\ lastOp' = "ydomain"
  /\ UNCHANGED << series, numTicks, containerWidth, hoverState, queue, isProcessing,
                  timers, lastX, lastTick, submitted, resolved, sinceLeave, lastWidth,
                  prevHover, leftOnce >>

\* The deferred continuation setTimeout(processNext, 0).  The handler above
\* schedules it only when an item is left after its own pop, which no
\* reachable state allows, so no specification below lists it.
ProcessNextTimer ==
  /\ timers # << >>
  /\ LET c == ProcessNext([Controller EXCEPT !.timers = Tail(timers)],
                          Head(timers).ser, Head(timers).sc)
     IN  /\ queue' = c.queue
         /\ isProcessing' = c.isProcessing
         /\ hoverState' = c.hoverState
         /\ timers' = c.timers
         /\ lastTick' = c.tick
         /\ resolved' = c.resolved
  /\ lastOp' = "timer"
  /\ UNCHANGED << props, containerWidth, scales, lastX, submitted, sinceLeave, lastWidth,
                  prevHover, leftOnce >>

\* ---------------------------------------------------------------- specifications
\* The full controller on charts of at most one series.
Init ==
  /\ series \in SingleSeriesSets
  /\ yDomain = NoDomain
  /\ numTicks = DefaultNumTicks
  /\ InitController

Next ==
  \/ \E x \in PointerXs : submitted < MaxMoves /\ PointerMove(x)
  \/ MouseLeave
  \/ \E w \in MeasuredWidths : UpdateWidth(w)
  \/ \E ser \in SingleSeriesSets : ReplaceSeries(ser)

Spec == Init /\ [][Next]_vars

\* One chart of up to MaxSeries series, hovered and left.
InitTick ==
  /\ series \in DataSets
  /\ yDomain = NoDomain
  /\ numTicks = DefaultNumTicks
  /\ InitController

NextTick ==
  \/ \E x \in PointerXs : submitted < 1 /\ PointerMove(x)
  \/ MouseLeave

SpecTick == InitTick /\ [][NextTick]_vars

\* A burst of BurstLen pointer moves without a leave.
NextBurst == \E x \in PointerXs : submitted < BurstLen /\ PointerMove(x)

SpecBurst == Init /\ [][NextBurst]_vars

\* Bursts of pointer moves under the host event loop: a scheduled
\* setTimeout(processNext, 0) continuation is run as long as it stays pending.
SpecDrain == Init /\ [][NextBurst]_vars /\ WF_vars(ProcessNextTimer)

\* The push-and-thin half of handlePointerMove on its own: isProcessingRef is
\* set, so every call pushes its item and thins the queue, and none drains it.
InitPush ==
  /\ series \in { d \in SingleSeriesSets : FlatMapData(d) # << >> }
  /\ yDomain = NoDomain
  /\ numTicks = DefaultNumTicks
  /\ containerWidth = DefaultWidth
  /\ scales = Scales(series, yDomain, numTicks, DefaultWidth)
  /\ hoverState = NoHover
  /\ queue = << >>
  /\ isProcessing = TRUE
  /\ timers = << >>
  /\ lastOp = "mount"
  /\ lastX = 0
  /\ lastTick = NoTick
  /\ submitted = 0
  /\ resolved = {}
  /\ sinceLeave = "none"
  /\ lastWidth = DefaultWidth
  /\ prevHover = NoHover
  /\ leftOnce = FALSE

NextPush == \E x \in PushXs : submitted < PushLen /\ PointerMove(x)

SpecPush == InitPush /\ [][NextPush]_vars

\* The scale builder over explicit domains, tick requests and widths.
InitScale ==
  /\ series \in ScaleDataSets
  /\ yDomain \in YDomains
  /\ numTicks \in NumTicksProps
  /\ InitController

NextScale ==
  \/ \E w \in MeasuredWidths : UpdateWidth(w)
  \/ \E d \in YDomains : ReplaceYDomain(d)

SpecScale == InitScale /\ [][NextScale]_vars

\* ---------------------------------------------------------------- claims
Hovering == hoverState # NoHover
Moved == lastOp = "move" /\ scales # NoScale
Dist(a, b) == Abs(a - b)

\* C1: after a pointer move at pixel X, every series with at least one point has
\* exactly one resolved sample, its timestamp is at the least distance from
\* invertX(X) among the points of that series, and no earlier point of the
\* series is as near; invertX(X) is the truncated inverse of the time scale.
NearestSampleSelected ==
  Moved =>
    LET smp == lastTick.samples
        h == lastTick.hoveredTime
    IN  /\ (h - scales.x0) * (scales.r1 - scales.r0) <= (lastX - scales.r0) * (scales.x1 - scales.x0)
        /\ (lastX - scales.r0) * (scales.x1 - scales.x0) < (h + 1 - scales.x0) * (scales.r1 - scales.r0)
        /\ \A s \in 1..Len(series) :
             Cardinality({k \in 1..Len(smp) : smp[k].line = s})
               = (IF Len(series[s]) > 0 THEN 1 ELSE 0)
        /\ \A k \in 1..Len(smp) :
             LET data == series[smp[k].line]
                 i == smp[k].idx
             IN  /\ smp[k].datum = data[i]
                 /\ \A j \in 1..Len(data) : Dist(data[i].t, h) <= Dist(data[j].t, h)
                 /\ \A j \in 1..(i - 1) : Dist(data[j].t, h) > Dist(data[i].t, h)

\* C1 witness: a tick resolved a sample that has an equally near later point
NearestSampleTie ==
  /\ Moved
  /\ \E k \in 1..Len(lastTick.samples) :
       LET data == series[lastTick.samples[k].line]
           i == lastTick.samples[k].idx
       IN  \E j \in (i + 1)..Len(data) :
             Dist(data[j].t, lastTick.hoveredTime) = Dist(data[i].t, lastTick.hoveredTime)

\* A value that formats with two decimals as "0.00": 0 <= y < 0.005
FormatsAsZero(y) == 0 <= y /\ y < 5

\* The samples a dedup of smp must keep: all that do not format as "0.00", and
\* the first that does
KeptIndexes(smp) ==
  { k \in 1..Len(smp) :
      \/ ~FormatsAsZero(smp[k].datum.y)
      \/ \A j \in 1..(k - 1) : ~FormatsAsZero(smp[j].datum.y) }

\* C2: the tooltips published by a tick are the resolved samples, in series
\* order, without every sample that formats as "0.00" after the first such one;
\* every other sample is kept.
ZeroTooltipsDeduplicated ==
  Moved =>
    LET smp == lastTick.samples
        keep == KeptIndexes(smp)
        tts == hoverState.tooltips
    IN  /\ Len(tts) = Cardinality(keep)
        /\ \A m \in 1..Len(tts) :
             tts[m] = smp[CHOOSE k \in keep : Cardinality({j \in keep : j <= k}) = m]

\* C2 witness: three series all formatting as "0.00" gave exactly one tooltip
ThreeZerosOneTooltip ==
  /\ Moved
  /\ Len(lastTick.samples) = 3
  /\ \A k \in 1..3 : FormatsAsZero(lastTick.samples[k].datum.y)
  /\ Len(hoverState.tooltips) = 1

\* The stacked tooltips of the displayed hover state
Stacked == IF Hovering THEN RepositionedTooltips(hoverState) ELSE << >>
BoxStep == (TooltipHeight + Gap)

\* C3 (as claimed): the adjusted tops of any two tooltips of a hover state
\* differ by at least tooltipHeight + gap = 26 px.
NoTooltipOverlap ==
  Hovering =>
    \A a, b \in 1..Len(Stacked) :
      a # b => Dist(Stacked[a].top, Stacked[b].top) >= BoxStep * hoverState.yDen

ExampleExtent ==
  /\ scales # NoScale
  /\ YExtent(series, yDomain) = << 120, 340 >>
  /\ EffectiveNumTicks(numTicks) = 4

\* C5 (as claimed): for minimum tick count 4 and y-extent [0.12, 0.34] the
\* interval is 0.05 and the final y-domain is [0.10, 0.35].
ExampleIntervalAsClaimed ==
  ExampleExtent => scales.interval = 50 /\ scales.y0 = 100 /\ scales.y1 = 350

\* C5 (amended): for minimum tick count 4 and y-extent [0.12, 0.34] the
\* interval is 0.1 and the final y-domain is [0.1, 0.4].
ExampleIntervalComputed ==
  ExampleExtent => scales.interval = 100 /\ scales.y0 = 100 /\ scales.y1 = 400

\* C5 witness: the scales were rebuilt by a resize for that extent and count
ExampleExtentBuilt == ExampleExtent /\ lastOp = "resize"

\* C6 (as claimed): of a burst of 20 pointer moves at most quantiles + 1 = 5 are
\* dequeued and resolved, the most recently submitted one among them.
BurstResolvesAtMostFive ==
  (submitted = BurstLen /\ scales # NoScale) =>
    /\ Cardinality(resolved) <= Quantiles + 1
    /\ submitted \in resolved

\* C7: after each pointer move of a burst on a chart with data, the published
\* hover state is the one computed from that move's pixel X, and the item of
\* that move is the last one dequeued.
LastPositionPublished ==
  Moved =>
    /\ hoverState = ComputeHoverState(series, scales, lastX)
    /\ lastTick.x = lastX
    /\ submitted \in resolved

\* C7 witness: the last move of a burst of BurstLen moves published a tooltip
BurstEndPublished ==
  /\ Moved
  /\ submitted = BurstLen
  /\ Hovering
  /\ Len(hoverState.tooltips) = 1

\* C8: from a pointer leave until the next pointer move the hover state is
\* null and the queue is empty, whatever else happens in between.
LeaveClearsUntilNextMove ==
  sinceLeave # "none" => hoverState = NoHover /\ queue = << >>

\* C8 witness: the chart was left while hovering and another event followed
LeftWhileHoveringThenEvent ==
  sinceLeave = "leftHovering" /\ lastOp \in {"resize", "series"}

\* C9 (as claimed): after a container width change or a series replacement no
\* hover state is displayed.
InvalidationClearsHover ==
  lastOp \in {"resize", "series"} => hoverState = NoHover

\* The last (maximum) timestamp of the data
LastTimestamp ==
  LET all == FlatMapData(series) IN SetMax({all[j].t : j \in 1..Len(all)})
FirstTimestamp ==
  LET all == FlatMapData(series) IN SetMin({all[j].t : j \in 1..Len(all)})

\* C10 (as claimed): after the container width changes to W the x scale maps
\* the last timestamp to pixel W - marginRight.
ResizeMapsLastToRightEdge ==
  (lastOp = "resize" /\ scales # NoScale) =>
    XScaleNum(scales, LastTimestamp) = (lastWidth - MarginRight) * XDen(scales)

\* C10 (amended): after the container width changes to W the x scale maps the
\* last timestamp to pixel max(W, 400) - marginRight when the data holds two
\* different timestamps, and to the middle of
\* [marginLeft, max(W, 400) - marginRight] when all its timestamps are equal.
ResizeMapsLastToClampedEdge ==
  (lastOp = "resize" /\ scales # NoScale) =>
    LET right == Max2(lastWidth, MinWidth) - MarginRight IN
    IF FirstTimestamp < LastTimestamp
    THEN XScaleNum(scales, LastTimestamp) = right * XDen(scales)
    ELSE 2 * XScaleNum(scales, LastTimestamp) = (MarginLeft + right) * XDen(scales)

\* C10 witness: a resize to a width under the minimum, data over two timestamps
ResizedBelowMinimum ==
  /\ lastOp = "resize"
  /\ scales # NoScale
  /\ FirstTimestamp < LastTimestamp
  /\ lastWidth < MinWidth

\* C11: the hover state a tick publishes is determined by the series, the
\* scales and the pointer X alone: its tooltips are the deduplicated samples
\* resolved for that X, its guide position is the first tooltip's x, and it has
\* no other field, whatever hover state was displayed before.
TickReplacesHoverState ==
  Moved =>
    LET tts == FilteredTooltips(NewTooltips(series, scales, lastX)) IN
    /\ DOMAIN hoverState = {"xPosition", "tooltips", "xDen", "yDen"}
    /\ hoverState.tooltips = tts
    /\ hoverState.xPosition = (IF Len(tts) > 0 THEN tts[1].x ELSE lastX * XDen(scales))
    /\ hoverState.xDen = XDen(scales)
    /\ hoverState.yDen = YDen(scales)

\* C11 witness: a tick replaced a displayed hover state by a different one
TickReplacedDisplayedHover ==
  /\ Moved
  /\ prevHover # NoHover
  /\ prevHover # hoverState

\* C12: when every series is empty the scales are null, and a pointer move
\* changes nothing: no item is enqueued or dequeued, no tick is resolved, and
\* the hover state, the queue, the draining flag and the pending continuations
\* stay as they were.
NullScaleMoveChangesNothing ==
  [][ (FlatMapData(series) = << >> /\ lastOp' = "move" /\ submitted' = submitted + 1)
        => /\ scales = NoScale
           /\ UNCHANGED << hoverState, queue, isProcessing, timers, lastTick, resolved >> ]_vars

\* C12 witness: a pointer move was handled while every series was empty
MovedOverEmptyChart ==
  /\ lastOp = "move"
  /\ FlatMapData(series) = << >>
  /\ scales = NoScale
  /\ submitted > 0

\* C13: a pointer move at any pixel X, also one left of the plot area or right
\* of it, publishes a hover state, and its guide position lies within
\* [margin.left, containerWidth - margin.right].
GuideWithinPlotArea ==
  Moved =>
    /\ Hovering
    /\ hoverState.xDen > 0
    /\ MarginLeft * hoverState.xDen <= hoverState.xPosition
    /\ hoverState.xPosition <= (containerWidth - MarginRight) * hoverState.xDen

\* C13 witness: a tick was published for a pointer outside the plot area
MovedOutsidePlotArea ==
  /\ Moved
  /\ Hovering
  /\ (lastX < MarginLeft \/ lastX > containerWidth - MarginRight)

\* C14 (as claimed): the render of a published hover state has exactly one
\* guide line, exactly one date label, and one marker for each sample the tick
\* resolved, the samples whose tooltip the zero dedup removed included.
OneMarkerPerResolvedSample ==
  Moved =>
    /\ Len(HoverLines(hoverState)) = 1
    /\ Len(DateLabels(hoverState)) = 1
    /\ \A k \in 1..Len(lastTick.samples) :
         Cardinality({ m \in 1..Len(HoverPoints(hoverState)) :
                         HoverPoints(hoverState)[m].line = lastTick.samples[k].line }) = 1

\* The indexes of the series that have data
NonEmptySeries == { s \in 1..Len(series) : Len(series[s]) > 0 }

\* C15: a tick resolves exactly one sample for each series that has data, in
\* series order, and none for a series without data; a series without data
\* does not change the sample of any other series, which is the sample the
\* tick resolves for that series alone.
OneSamplePerNonEmptySeries ==
  Moved =>
    LET smp == lastTick.samples IN
    /\ Len(smp) = Cardinality(NonEmptySeries)
    /\ \A k \in 1..Len(smp) : smp[k].line \in NonEmptySeries
    /\ \A k \in 1..Len(smp) : \A l \in (k + 1)..Len(smp) : smp[k].line < smp[l].line
    /\ \A k \in 1..Len(smp) :
         LET alone == ResolveFrom(<< series[smp[k].line] >>, scales, lastTick.hoveredTime, 1)
         IN  /\ Len(alone) = 1
             /\ smp[k] = [alone[1] EXCEPT !.line = smp[k].line]

\* C15 witness: a tick ran over a series without data followed by one with data
EmptySeriesBeforeSample ==
  /\ Moved
  /\ \E s \in 1..Len(series) : \E s2 \in (s + 1)..Len(series) :
       Len(series[s]) = 0 /\ Len(series[s2]) > 0
  /\ Len(lastTick.samples) > 0

\* The y extent the scale builder starts from, and the tick count it asks for
BuilderExtent == YExtent(series, yDomain)
BuilderTicks == EffectiveNumTicks(numTicks)

\* The number of ticks candidate interval i spans over [min, max]:
\* round((ceil(max / i) * i - floor(min / i) * i) / i) + 1
SpannedTicks(i, min, max) ==
  LET lo == Floor(min, i) * i
      hi == Ceil(max, i) * i
  IN  ((2 * (hi - lo) + i) \div (2 * i)) + 1

\* The candidate intervals that span at least K ticks over the builder's extent
QualifyingIntervals ==
  { NiceIntervals[j] : j \in { n \in 1..Len(NiceIntervals) :
       SpannedTicks(NiceIntervals[n], BuilderExtent[1], BuilderExtent[2]) >= BuilderTicks } }

\* C16 (as claimed): for every y extent [min, max] and tick count K the
\* builder takes the largest candidate interval i that spans at least K ticks,
\* or the smallest candidate 0.001 when none does, and the final domain is
\* [floor(min / i) * i, ceil(max / i) * i], floor and ceil being those of the
\* real quotients.
LargestQualifyingInterval ==
  scales # NoScale =>
    LET i == IF QualifyingIntervals # {} THEN SetMax(QualifyingIntervals)
             ELSE NiceIntervals[1]
    IN  /\ scales.interval = i
        /\ scales.y0 = Floor(BuilderExtent[1], i) * i
        /\ scales.y1 = Ceil(BuilderExtent[2], i) * i

\* The gridlines one interval apart that the final y domain covers, ends included
GridlinesCovered == ((scales.y1 - scales.y0) \div scales.interval) + 1

\* C17 (as claimed): for every data set with at least one point and every tick
\* count K the final y domain covers at least K gridlines.
DomainCoversRequestedTicks ==
  (scales # NoScale /\ yDomain = NoDomain) => GridlinesCovered >= BuilderTicks

\* C18 (as claimed): when the minimum and the maximum of the data are equal
\* the final y domain has a strictly positive span.
FlatDataPositiveSpan ==
  (scales # NoScale /\ yDomain = NoDomain /\ BuilderExtent[1] = BuilderExtent[2])
    => scales.y1 > scales.y0

\* A supplied yDomain that already holds at least K ticks: some candidate
\* interval has K or more of its multiples inside [min, max]
SuppliedDomainYieldsTicks ==
  /\ yDomain # NoDomain
  /\ \E j \in 1..Len(NiceIntervals) :
       Floor(yDomain[2], NiceIntervals[j]) - Ceil(yDomain[1], NiceIntervals[j]) + 1
         >= BuilderTicks

\* C19 (as claimed): when the supplied yDomain already yields at least K ticks
\* the final y domain equals the supplied yDomain exactly.
SuppliedDomainKept ==
  (scales # NoScale /\ SuppliedDomainYieldsTicks)
    => << scales.y0, scales.y1 >> = yDomain

\* C19 (amended): a supplied yDomain is adjusted like a data extent, whether
\* or not it already yields K ticks: the final y domain is the
\* [minTick, maxTick] the builder computes from the supplied ends for the
\* interval it chooses for them, and it is not the supplied yDomain when an
\* end of the supplied yDomain is not a multiple of that interval.
SuppliedDomainNiceified ==
  (scales # NoScale /\ yDomain # NoDomain) =>
    LET i == scales.interval IN
    /\ i = BestInterval(yDomain[1], yDomain[2], BuilderTicks)
    /\ scales.y0 = FloorOf(yDomain[1], i) * i
    /\ scales.y1 = CeilOf(yDomain[2], i) * i
    /\ (yDomain[1] % i # 0 \/ yDomain[2] % i # 0)
         => << scales.y0, scales.y1 >> # yDomain

\* C19 witness: the scales were rebuilt for a supplied yDomain that already
\* yields K ticks, and the final y domain is wider than the supplied one
SatisfyingDomainWidened ==
  /\ scales # NoScale
  /\ lastOp = "ydomain"
  /\ SuppliedDomainYieldsTicks
  /\ << scales.y0, scales.y1 >> # yDomain

DomainContainsExtent ==
  scales # NoScale =>
    LET i == scales.interval IN
    /\ \/ scales.y0 < BuilderExtent[1]
       \/ /\ scales.y0 = BuilderExtent[1]
          /\ TickRounding(scales.y0 \div i, i) <= 0
    /\ \/ scales.y1 > BuilderExtent[2]
       \/ /\ scales.y1 = BuilderExtent[2]
          /\ TickRounding(scales.y1 \div i, i) >= 0

\* The drain is over: nothing queued and the draining flag down
DrainOver == queue = << >> /\ ~isProcessing

\* C21: after any finite sequence of pointer moves followed by no further
\* input the drain is eventually over, with the queue empty and the draining
\* flag false, and the flag is never true while no continuation is scheduled.
DrainTerminates ==
  /\ [](isProcessing => timers # << >>)
  /\ []<>DrainOver

\* C21 witness: several pointer moves were handled, every one of them was
\* dequeued, and the drain is over
BurstDrained ==
  /\ lastOp = "move"
  /\ submitted > 1
  /\ resolved = 1..submitted
  /\ DrainOver

\* C26: when a pointer-move handler returns the queue is empty and the draining
\* flag is false, in any sequence of moves, leaves, resizes and series changes;
\* so a push never makes the queue longer than 1, the thinning threshold is
\* never passed and no setTimeout continuation is ever pending.
HandlerReturnsDrained ==
  /\ queue = << >>
  /\ ~isProcessing
  /\ timers = << >>
  /\ Len(queue) + 1 <= 1
  /\ Len(queue) + 1 <= PruneThreshold

\* C26 witness: a pointer move was handled and published its tick on a chart
\* that had been left and resized before
MovedAfterLeaveAndResize ==
  /\ Moved
  /\ Hovering
  /\ leftOnce
  /\ containerWidth # DefaultWidth
  /\ resolved = 1..submitted
  /\ DrainOver

\* C27: at most one drain continuation is pending at any time, also when a
\* leave has reset the draining flag without cancelling a timer and a later
\* move has started a new drain.
AtMostOneContinuation == Len(timers) <= 1

\* C27 witness: the pointer left the chart, which reset the flag, and a later
\* move started a new drain
NewDrainAfterLeave ==
  /\ Moved
  /\ leftOnce
  /\ submitted = 1
  /\ resolved = {1}
  /\ Len(timers) <= 1

\* The longest queue a handler may return with when it only pushes and thins:
\* the thinning step floor(length / quantiles) is 1, which keeps every item,
\* until the queue is 2 * quantiles long; 7 items with quantiles = 4
MaxThinnedLen == 2 * Quantiles - 1

\* C29: with pushes and thinning alone (the drain held), the queue a handler
\* returns with is never longer than 7 items, for any number of consecutive
\* pointer moves.
QueueAtMostSeven == Len(queue) <= MaxThinnedLen

\* C29 witness: the queue was thinned from 8 items to 4 and has grown back to
\* 7 items under further moves
QueueBackAtSeven ==
  /\ lastOp = "move"
  /\ isProcessing
  /\ submitted > MaxThinnedLen + 1
  /\ Len(queue) = MaxThinnedLen

\* Half a tooltip box, the distance from its top to its centre
HalfBox == TooltipHeight \div 2

\* C23: after stacking, every adjusted top is at or below the top margin line
\* (top >= margin.top), for any number of samples and any natural Y.
TopsBelowTopMargin ==
  Hovering =>
    LET st == Stacked IN
    \A k \in 1..Len(st) :
      /\ st[k].top >= MarginTop * hoverState.yDen
      /\ st[k].adjustedY - HalfBox * hoverState.yDen >= MarginTop * hoverState.yDen

\* C23 witness: a tick stacked several samples, and one whose box would have
\* started above the top margin was put at margin.top
StackClampedAtTopMargin ==
  /\ Moved
  /\ Len(Stacked) > 1
  /\ \E k \in 1..Len(Stacked) :
       /\ Min2(Stacked[k].y - HalfBox * hoverState.yDen,
               (IF k = 1 THEN Height * hoverState.yDen ELSE Stacked[k - 1].top)
                 - BoxStep * hoverState.yDen) < MarginTop * hoverState.yDen
       /\ Stacked[k].top = MarginTop * hoverState.yDen

\* A hover state of exactly one sample whose natural Y lies in the plot area
\* [margin.top, height - margin.bottom]
OneSampleInPlotArea ==
  /\ Hovering
  /\ Len(Stacked) = 1
  /\ Stacked[1].y >= MarginTop * hoverState.yDen
  /\ Stacked[1].y <= (Height - MarginBottom) * hoverState.yDen

\* C24 (as claimed): a single sample is not moved by the stacking: its adjusted
\* centre is its natural Y, for every natural Y in the plot area.
SingleSampleUnmoved ==
  OneSampleInPlotArea => Stacked[1].adjustedY = Stacked[1].y

\* C24 (amended): a single sample with natural Y in the plot area gets the
\* adjusted centre max(Y, margin.top + 12): its natural Y from 12 px below the
\* top margin on, and margin.top + 12 above that.
SingleSampleClampedOnly ==
  OneSampleInPlotArea =>
    Stacked[1].adjustedY
      = Max2(Stacked[1].y, (MarginTop + HalfBox) * hoverState.yDen)

\* C24 witness: a tick resolved one sample less than 12 px below the top
\* margin, and its tooltip was centred at margin.top + 12
SingleSampleNearTopMoved ==
  /\ Moved
  /\ OneSampleInPlotArea
  /\ Stacked[1].y < (MarginTop + HalfBox) * hoverState.yDen
  /\ Stacked[1].adjustedY = (MarginTop + HalfBox) * hoverState.yDen

\* C30: the stacking walks the samples from bottom to top (natural Y
\* descending), the adjusted tops never increase along the walk, and each top
\* is at most its natural top Y - 12 unless the clamp raised it to margin.top.
StackWalksBottomToTop ==
  Hovering =>
    LET st == Stacked IN
    /\ \A a \in 1..(Len(st) - 1) :
         /\ st[a].y >= st[a + 1].y
         /\ st[a].top >= st[a + 1].top
    /\ \A k \in 1..Len(st) :
         \/ st[k].top <= st[k].y - HalfBox * hoverState.yDen
         \/ st[k].top = MarginTop * hoverState.yDen

\* C30 witness: a tick stacked samples of different natural Y that the series
\* gave in ascending order, and pushed one of them above its natural top
StackReorderedAndPushedUp ==
  /\ Moved
  /\ \E a, b \in 1..Len(hoverState.tooltips) :
       a < b /\ hoverState.tooltips[a].y < hoverState.tooltips[b].y
  /\ \E k \in 2..Len(Stacked) :
       /\ Stacked[k].top < Stacked[k].y - HalfBox * hoverState.yDen
       /\ Stacked[k].top > MarginTop * hoverState.yDen

\* The Scale built for the geometry and data of the current render
RebuiltScale == Scales(series, yDomain, numTicks, containerWidth)
\* The Scale the chart had at the width it was mounted with
MountWidthScale == Scales(series, yDomain, numTicks, DefaultWidth)

\* C22: a hover tick processed after a resize or a series change is resolved
\* with the Scale rebuilt for the new geometry and data, never with an earlier
\* one: hovered time, samples and published hover state are those the rebuilt
\* Scale gives for the pointer position.
TickUsesRebuiltScale ==
  Moved =>
    /\ scales = RebuiltScale
    /\ lastTick.x = lastX
    /\ lastTick.hoveredTime = XInvert(RebuiltScale, lastX)
    /\ lastTick.samples = NewTooltips(series, RebuiltScale, lastX)
    /\ hoverState = ComputeHoverState(series, RebuiltScale, lastX)

\* C22 witness: a tick was processed after a resize, and the Scale of the
\* earlier width would have resolved it differently
TickAfterResizeDiffers ==
  /\ Moved
  /\ Hovering
  /\ containerWidth # DefaultWidth
  /\ MountWidthScale # NoScale
  /\ hoverState # ComputeHoverState(series, MountWidthScale, lastX)

\* Every tooltip box and the date label of the displayed hover state are
\* rendered to the left (flip) or all to the right (~flip)
OverlayFlipIs(flip) ==
  /\ DateLabelFlipped(hoverState, containerWidth) = flip
  /\ \A k \in 1..Len(TooltipBoxes(hoverState, containerWidth)) :
       LET box == TooltipBoxes(hoverState, containerWidth)[k] IN
       /\ box.flipped = flip
       /\ box.left = Stacked[k].relativeX + (IF flip THEN -8 ELSE 8) * hoverState.xDen

\* C25 (as claimed): the tooltips and the date label of a tick's hover state
\* are flipped to the left exactly when pointerX + 150 exceeds the right plot
\* edge containerWidth - marginRight, pointerX the pointer's pixel X of the tick.
FlipByPointerX ==
  (Moved /\ Hovering) =>
    OverlayFlipIs(lastX + TooltipWidth > containerWidth - MarginRight)

\* C25 (amended): the tooltips and the date label of a hover state are flipped
\* to the left exactly when xPosition + 150 exceeds containerWidth -
\* marginRight, xPosition being the hover state's guide position, and are
\* rendered to the right otherwise.
FlipByGuidePosition ==
  Hovering =>
    OverlayFlipIs(hoverState.xPosition + TooltipWidth * hoverState.xDen
                    > (containerWidth - MarginRight) * hoverState.xDen)

\* C25 witness: the pointer was within 150 px of the right plot edge, the tick
\* snapped the guide to a sample further away, and its tooltip was rendered to
\* the right
UnflippedNearRightEdge ==
  /\ Moved
  /\ Hovering
  /\ Len(Stacked) > 0
  /\ lastX + TooltipWidth > containerWidth - MarginRight
  /\ OverlayFlipIs(FALSE)

=============================================================================
